---- MODULE Spec2Model ----
(***************************************************************************)
(* Model of the mock interviewer: the interview session                    *)
(* (src/src/interviewer.py, class ExcelMockInterviewer) and the gateway    *)
(* it calls (src/src/groq_ai_service.py, class GroqAIService).             *)
(*                                                                         *)
(* A text is a sequence of tokens.  A token is a one-character string, or  *)
(* a longer string that stands for a fixed literal of the source.  Text    *)
(* typed by the user is made of one-character tokens only, so strip(),     *)
(* lower() and the substring test `in` are computed character by           *)
(* character.                                                              *)
(***************************************************************************)
EXTENDS Integers, Sequences, FiniteSets, TLC

VARIABLES
    phase,                    \* self.phase
    current_question_number,  \* self.current_question_number
    total_questions,          \* self.total_questions
    user_responses,           \* self.user_responses
    evaluations,              \* self.evaluations
    questions_asked,          \* self.questions_asked
    conversation_history,     \* self.conversation_history
    is_ready,                 \* self.is_ready
    outage,                   \* environment: the upstream model is down for the whole run
    malformed,                \* environment: malformed JSON objects the model has sent
    last_call,                \* the operation called last, with its argument
    result,                   \* what that call returned, or the exception it raised
    gateway_calls,            \* the gateway calls that call made, in order
    script                    \* position of the run in the full-traversal call sequence

vars == <<phase, current_question_number, total_questions, user_responses,
          evaluations, questions_asked, conversation_history, is_ready,
          outage, malformed, last_call, result, gateway_calls, script>>

-----------------------------------------------------------------------------
(* Bounds *)

\* Largest total_questions of a session whose upstream model answers freely.
MaxTotal == 2

\* Largest total_questions of a session whose upstream model is down.
MaxOutageTotal == 7

\* Most malformed JSON objects the upstream model sends in one run.
MaxMalformed == 1

-----------------------------------------------------------------------------
(* Python built-ins on texts *)

Min(a, b) == IF a < b THEN a ELSE b

UpperLetters == <<"A","B","C","D","E","F","G","H","I","J","K","L","M",
                  "N","O","P","Q","R","S","T","U","V","W","X","Y","Z">>
LowerLetters == <<"a","b","c","d","e","f","g","h","i","j","k","l","m",
                  "n","o","p","q","r","s","t","u","v","w","x","y","z">>

Whitespace == {" ", "\t", "\n"}

\* str.lower()
lower_char(c) ==
    IF \E i \in 1..Len(UpperLetters) : UpperLetters[i] = c
    THEN LowerLetters[CHOOSE i \in 1..Len(UpperLetters) : UpperLetters[i] = c]
    ELSE c

lower(s) == [i \in 1..Len(s) |-> lower_char(s[i])]

\* str.strip()
strip(s) ==
    LET keep == {i \in 1..Len(s) : s[i] \notin Whitespace}
    IN  IF keep = {} THEN <<>>
        ELSE LET first == CHOOSE i \in keep : \A j \in keep : i <= j
                 last  == CHOOSE i \in keep : \A j \in keep : j <= i
             IN  SubSeq(s, first, last)

\* `sub in s` on strings
contains(sub, s) ==
    \E i \in 1..(Len(s) - Len(sub) + 1) : SubSeq(s, i, i + Len(sub) - 1) = sub

\* the whole context, uncut
last_items_all(list, n) == list

\* s[:n] on a text: the first n characters, a token being cut where the
\* n-th character falls inside it
RECURSIVE truncate(_, _)
truncate(s, n) ==
    IF s = <<>> \/ n <= 0 THEN <<>>
    ELSE IF Len(Head(s)) <= n
    THEN <<Head(s)>> \o truncate(Tail(s), n - Len(Head(s)))
    ELSE <<SubSeq(Head(s), 1, n)>>

\* list[-n:]
last_items(list, n) ==
    SubSeq(list, IF Len(list) > n THEN Len(list) - n + 1 ELSE 1, Len(list))

-----------------------------------------------------------------------------
(* The callers' inputs *)

\* "Ready!"
InputReady == <<"R","e","a","d","y","!">>
\* "yes please"
InputYesPlease == <<"y","e","s"," ","p","l","e","a","s","e">>
\* "nah"
InputNah == <<"n","a","h">>
\* " =SUMIF(A:A,"PROD001",B:B) ": longer than 20 characters once stripped
InputFormula ==
    <<" ","=","S","U","M","I","F","(","A",":","A",",","\"","P","R","O","D",
      "0","0","1","\"",",","B",":","B",")"," ">>

\* " =SUMIF(A:A,"PROD001"": exactly 20 characters once stripped
InputTwenty == SubSeq(InputFormula, 1, 21)
\* " =SUMIF(A:A,"PROD001",": exactly 21 characters once stripped
InputTwentyOne == SubSeq(InputFormula, 1, 22)

\* the formula typed twice: longer than 50 characters once stripped
InputTwice == InputFormula \o InputFormula

\* what the caller types when asked whether they are ready
ReadinessInputs == {InputReady, InputYesPlease, InputNah}
\* what the caller types as an answer
AnswerInputs == {InputNah, InputFormula}
\* answers at the boundary of the length heuristic
BoundaryInputs == {InputTwenty, InputTwentyOne}
\* an answer longer than the cut of the feedback context
LongInputs == {InputTwice}

Inputs == ReadinessInputs \cup AnswerInputs \cup BoundaryInputs \cup LongInputs

\* user_input.strip().lower() of each input, computed once
normalized == [raw \in Inputs |-> lower(strip(raw))]

UserInputs == {normalized[raw] : raw \in Inputs}

\* len(user_answer.strip()) of each stored answer, computed once
stripped_length == [user_input \in UserInputs |-> Len(strip(user_input))]

-----------------------------------------------------------------------------
(* JSON values.  A text field of a payload is a string, is absent, or has   *)
(* another JSON type; a score is a number, a string, or is absent.         *)

StrVal(tokens) == [type |-> "str", val |-> tokens]
AbsentVal      == [type |-> "absent", val |-> <<>>]
IntVal         == [type |-> "int", val |-> <<"<int>">>]

NumScore(n)    == [type |-> "num", n |-> n]
StrScore       == [type |-> "str", n |-> 0]
AbsentScore    == [type |-> "absent", n |-> 0]

\* dict.get(key, default) for a text field
get(field, default) == IF field.type = "absent" THEN StrVal(default) ELSE field

\* whether v[:n] works: it does on a string, and raises TypeError on a number
sliceable(v) == v.type = "str"

\* str(v) inside an f-string
fmt(v) == v.val

-----------------------------------------------------------------------------
(* The upstream model: what one chat-completion call can do.               *)

\* client.chat.completions.create raises, or the content holds no braces, or
\* json.loads rejects the text between the braces
UpstreamFailures(none) ==
    { [kind |-> "error", payload |-> none],
      [kind |-> "no_json", payload |-> none],
      [kind |-> "bad_json", payload |-> none] }

QuestionPayload(body) ==
    [question |-> body, ideal_solution |-> StrVal(<<"<model solution>">>)]

\* JSON objects the model may send for a question: well formed, without the
\* question body, with a question body that is no string
QuestionPayloads ==
    { QuestionPayload(StrVal(<<"<model question>">>)),
      QuestionPayload(AbsentVal),
      QuestionPayload(IntVal) }

\* a question object is malformed when its body is not a string
malformed_question(p) == p.question.type # "str"

UpstreamQuestion ==
    UpstreamFailures(QuestionPayload(AbsentVal))
    \cup (IF outage THEN {}
          ELSE {[kind |-> "json", payload |-> p] : p \in QuestionPayloads})

EvaluationPayload(c, e, cl, o) ==
    [correctness_score |-> c, efficiency_score |-> e, clarity_score |-> cl,
     overall_score |-> o,
     feedback |-> StrVal(<<"<model feedback>">>),
     strengths |-> <<>>,
     areas_for_improvement |-> <<>>,
     recommendation |-> StrVal(<<"<model recommendation>">>)]

\* JSON objects the model may send for an evaluation: with the overall score
\* left out, with the overall score sent as a string, and with four numbers
EvaluationPayloads ==
    { EvaluationPayload(NumScore(8), NumScore(8), NumScore(8), AbsentScore),
      EvaluationPayload(NumScore(9), NumScore(9), NumScore(9), StrScore),
      EvaluationPayload(NumScore(7), NumScore(7), NumScore(7), NumScore(7)) }

\* an evaluation object is malformed when a score is not a number
malformed_evaluation(p) ==
    \/ p.correctness_score.type = "str"
    \/ p.efficiency_score.type = "str"
    \/ p.clarity_score.type = "str"
    \/ p.overall_score.type = "str"

UpstreamEvaluation ==
    UpstreamFailures(EvaluationPayload(AbsentScore, AbsentScore, AbsentScore, AbsentScore))
    \cup (IF outage THEN {}
          ELSE {[kind |-> "json", payload |-> p] : p \in EvaluationPayloads})

\* a free-text completion: the call raises or returns text
UpstreamText(literal) ==
    {[kind |-> "error", payload |-> <<>>]}
    \cup (IF outage THEN {} ELSE {[kind |-> "text", payload |-> <<literal>>]})

-----------------------------------------------------------------------------
(* GroqAIService *)

Difficulties == {"intermediate", "intermediate_advanced", "advanced"}

FallbackQuestion(body, solution) ==
    [question |-> StrVal(<<body>>), ideal_solution |-> StrVal(<<solution>>),
     generated_by |-> "<absent>", difficulty_level |-> "<absent>",
     question_number |-> 0]

\* a fallback that yields a question without a body
get_fallback_question_bodiless(difficulty_level, question_number) ==
    [FallbackQuestion("", "=SUMIF(A:A,\"PROD001\",B:B)") EXCEPT !.question = AbsentVal]

\* _get_fallback_question: the static question of the difficulty, the
\* intermediate one for an unknown difficulty; it carries no metadata
get_fallback_question(difficulty_level, question_number) ==
    CASE difficulty_level = "intermediate_advanced" ->
           FallbackQuestion("You need to create a dynamic range that automatically expands when new data is added. How would you accomplish this?",
                            "=OFFSET($A$1,0,0,COUNTA($A:$A),1) or Excel Tables")
      [] difficulty_level = "advanced" ->
           FallbackQuestion("You need to perform a lookup with multiple criteria. How would you find a value where Column A = 'Category1' AND Column B = 'Product1'?",
                            "=INDEX(C:C,MATCH(1,(A:A=\"Category1\")*(B:B=\"Product1\"),0))")
      [] OTHER ->
           FallbackQuestion("You have a sales dataset with Product_ID in column A and Sales_Amount in column B. How would you calculate the total sales for Product_ID 'PROD001'?",
                            "=SUMIF(A:A,\"PROD001\",B:B)")

\* generate_question: the model's JSON object with the metadata added, or
\* the fallback question when the call or the parse fails
generate_question(difficulty_level, question_number, context, up) ==
    IF up.kind = "json"
    THEN [question |-> up.payload.question,
          ideal_solution |-> up.payload.ideal_solution,
          generated_by |-> "groq_ai",
          difficulty_level |-> difficulty_level,
          question_number |-> question_number]
    ELSE get_fallback_question(difficulty_level, question_number)

\* a basic evaluation that scores out of a hundred
get_basic_evaluation_percent(user_answer) ==
    LET score == IF stripped_length[user_answer] > 20 THEN 50 ELSE 30
    IN  [correctness_score |-> NumScore(score),
         efficiency_score |-> NumScore(score),
         clarity_score |-> NumScore(score),
         overall_score |-> NumScore(score),
         feedback |-> StrVal(<<"Thank you for your response.">>),
         strengths |-> <<>>,
         areas_for_improvement |-> <<"Provide more detailed explanations">>,
         recommendation |-> StrVal(<<"Practice explaining Excel solutions step-by-step.">>)]

\* a basic evaluation whose higher score starts at 20 characters
get_basic_evaluation_from_20(user_answer) ==
    LET score == IF stripped_length[user_answer] >= 20 THEN 5 ELSE 3
    IN  [correctness_score |-> NumScore(score),
         efficiency_score |-> NumScore(score),
         clarity_score |-> NumScore(score),
         overall_score |-> NumScore(score),
         feedback |-> StrVal(<<"Thank you for your response.">>),
         strengths |-> <<>>,
         areas_for_improvement |-> <<"Provide more detailed explanations">>,
         recommendation |-> StrVal(<<"Practice explaining Excel solutions step-by-step.">>)]

\* _get_basic_evaluation
get_basic_evaluation(user_answer) ==
    LET score == IF stripped_length[user_answer] > 20 THEN 5 ELSE 3
    IN  [correctness_score |-> NumScore(score),
         efficiency_score |-> NumScore(score),
         clarity_score |-> NumScore(score),
         overall_score |-> NumScore(score),
         feedback |-> StrVal(<<"Thank you for your response.">>),
         strengths |-> <<>>,
         areas_for_improvement |-> <<"Provide more detailed explanations">>,
         recommendation |-> StrVal(<<"Practice explaining Excel solutions step-by-step.">>)]

\* dict.setdefault(key, 5.0) on a score
setdefault_score(v) == IF v.type = "absent" THEN NumScore(5) ELSE v

\* evaluate_answer: the model's JSON object with absent scores defaulted, or
\* the basic evaluation when the call or the parse fails
evaluate_answer(question, user_answer, up) ==
    IF up.kind = "json"
    THEN [up.payload EXCEPT
            !.correctness_score = setdefault_score(@),
            !.efficiency_score = setdefault_score(@),
            !.clarity_score = setdefault_score(@),
            !.overall_score = setdefault_score(@)]
    ELSE get_basic_evaluation(user_answer)

\* _format_conversation_history raises TypeError when one of the last three
\* turns holds a question that cannot be sliced
format_conversation_history_raises(history) ==
    LET recent == last_items(history, 3)
    IN  \E i \in 1..Len(recent) : ~sliceable(recent[i].question)

\* the two lines of one turn in the history context, each text cut to n
format_turn(i, item, n) ==
    <<"Q", ToString(i), ": ">> \o truncate(item.question.val, n)
    \o <<"...", "\n", "A", ToString(i), ": ">> \o truncate(item.answer, n)
    \o <<"...", "\n", "\n">>

RECURSIVE format_turns(_, _, _)
\* the lines of the turns from the i-th on
format_turns(items, i, n) ==
    IF i > Len(items) THEN <<>>
    ELSE format_turn(i, items[i], n) \o format_turns(items, i + 1, n)

\* a history context of every turn
format_conversation_history_whole(history) ==
    IF history = <<>> THEN <<"No previous conversation.">>
    ELSE format_turns(history, 1, 50)

\* a history context that cuts at 100
format_conversation_history_100(history) ==
    IF history = <<>> THEN <<"No previous conversation.">>
    ELSE format_turns(last_items(history, 3), 1, 100)

\* _format_conversation_history, when it does not raise
format_conversation_history(history) ==
    IF history = <<>> THEN <<"No previous conversation.">>
    ELSE format_turns(last_items(history, 3), 1, 50)

\* _get_basic_feedback
get_basic_feedback(user_answer, question) ==
    IF stripped_length[user_answer] < 10
    THEN <<"Please provide more detailed explanations of your Excel approach.">>
    ELSE <<"Thank you for your answer. The ideal solution would be: ">>
         \o fmt(get(question.ideal_solution, <<"N/A">>))

\* conduct_interview_response: [raised, text]
conduct_interview_response(user_answer, question, history, up) ==
    IF format_conversation_history_raises(history)
    THEN [raised |-> "TypeError", text |-> <<>>]
    ELSE IF up.kind = "text"
    THEN [raised |-> "none", text |-> up.payload]
    ELSE [raised |-> "none",
          text |-> <<"Thank you for your answer. ">>
                   \o get_basic_feedback(user_answer, question)]

ScoreFields == {"correctness_score", "efficiency_score", "clarity_score", "overall_score"}

RECURSIVE sum_overall(_)
sum_overall(evals) ==
    IF evals = <<>> THEN 0 ELSE Head(evals).overall_score.n + sum_overall(Tail(evals))

\* a basic report whose higher tier starts above a mean of 6
get_basic_report_above_6(evals) ==
    LET level == IF sum_overall(evals) > 6 * Len(evals)
                 THEN "Intermediate" ELSE "Beginner"
    IN  <<"<report head>", "Proficiency Level: ", level, "You completed ",
          ToString(Len(evals)), " questions.", "<report tail>">>

\* _get_basic_report: the tier and the number of evaluations
get_basic_report(evals) ==
    LET level == IF sum_overall(evals) >= 6 * Len(evals)
                 THEN "Intermediate" ELSE "Beginner"
    IN  <<"<report head>", "Proficiency Level: ", level, "You completed ",
          ToString(Len(evals)), " questions.", "<report tail>">>

\* generate_final_report: [raised, text].  The averages and the question and
\* answer context are computed before the guarded upstream call.
generate_final_report(questions, answers, evals, up) ==
    IF evals = <<>>
    THEN [raised |-> "ZeroDivisionError", text |-> <<>>]
    ELSE IF \E i \in 1..Len(evals) : \E f \in ScoreFields : evals[i][f].type # "num"
    THEN [raised |-> "TypeError", text |-> <<>>]
    ELSE IF \E i \in 1..Min(Len(questions), Min(Len(answers), Len(evals))) :
                ~sliceable(get(questions[i].question, <<"N/A">>))
    THEN [raised |-> "TypeError", text |-> <<>>]
    ELSE IF up.kind = "text"
    THEN [raised |-> "none", text |-> up.payload]
    ELSE [raised |-> "none", text |-> get_basic_report(evals)]

-----------------------------------------------------------------------------
(* ExcelMockInterviewer: the session as a record, and what a handler does  *)
(* to it.  A handler yields the session it leaves behind, the gateway      *)
(* calls it made, the exception it raised ("none" when it returned) and    *)
(* the text it returned.                                                   *)

Session ==
    [phase |-> phase,
     current_question_number |-> current_question_number,
     total_questions |-> total_questions,
     user_responses |-> user_responses,
     evaluations |-> evaluations,
     questions_asked |-> questions_asked,
     conversation_history |-> conversation_history,
     is_ready |-> is_ready]

NoQuestion == get_fallback_question("<none>", 0)

\* one gateway call, the arguments it was given, and the number of
\* evaluations the session holds when the call is made
GatewayCall(op, difficulty_level, question_number, context, user_answer, question, n) ==
    [op |-> op, difficulty_level |-> difficulty_level,
     question_number |-> question_number, context |-> context,
     user_answer |-> user_answer, question |-> question, n_evaluations |-> n]

Outcome(s, calls, raised, text) ==
    [s |-> s, calls |-> calls, raised |-> raised, text |-> text]

ready_indicators ==
    { <<"r","e","a","d","y">>, <<"y","e","s">>, <<"y">>,
      <<"s","t","a","r","t">>, <<"b","e","g","i","n">>, <<"g","o">>,
      <<"s","u","r","e">>, <<"o","k">>, <<"o","k","a","y">> }

\* any(indicator in user_input for indicator in ready_indicators)
is_affirmative(user_input) ==
    \E indicator \in ready_indicators : contains(indicator, user_input)

\* the inputs the test accepts, computed once
affirmative_inputs == {user_input \in UserInputs : is_affirmative(user_input)}

\* a table that gives question 4 of 5 the last difficulty
table_difficulty_short(total, n) ==
    IF n = 1 THEN "intermediate"
    ELSE IF n = 2 THEN (IF total = 3 THEN "intermediate_advanced" ELSE "intermediate")
    ELSE IF n = 3 /\ total # 3 THEN "intermediate_advanced"
    ELSE "advanced"

\* the difficulty of question n when total_questions is 3, 4 or 5
table_difficulty(total, n) ==
    IF total = 3
    THEN (IF n = 1 THEN "intermediate"
          ELSE IF n = 2 THEN "intermediate_advanced"
          ELSE "advanced")
    ELSE IF total = 4
    THEN (IF n = 1 THEN "intermediate"
          ELSE IF n = 2 THEN "intermediate"
          ELSE IF n = 3 THEN "intermediate_advanced"
          ELSE "advanced")
    ELSE (IF n = 1 THEN "intermediate"
          ELSE IF n = 2 THEN "intermediate"
          ELSE IF n \in {3, 4} THEN "intermediate_advanced"
          ELSE "advanced")

\* thirds with the bounds of the first two thirds excluded
thirds_difficulty_strict(total, n) ==
    LET third == total \div 3
    IN  IF n < third THEN "intermediate"
        ELSE IF n < 2 * third THEN "intermediate_advanced"
        ELSE "advanced"

\* thirds with the third rounded up
thirds_difficulty_rounded_up(total, n) ==
    LET third == (total + 2) \div 3
    IN  IF n <= third THEN "intermediate"
        ELSE IF n <= 2 * third THEN "intermediate_advanced"
        ELSE "advanced"

\* the difficulty of question n for any other total_questions
thirds_difficulty(total, n) ==
    LET third == total \div 3
    IN  IF n <= third THEN "intermediate"
        ELSE IF n <= 2 * third THEN "intermediate_advanced"
        ELSE "advanced"

\* the difficulty _ask_next_question picks for question n of total
question_difficulty(total, n) ==
    IF total \in {3, 4, 5} THEN table_difficulty(total, n)
    ELSE thirds_difficulty(total, n)

\* difficulty.value.replace('_', '/').title()
difficulty_title(difficulty) ==
    CASE difficulty = "intermediate" -> "Intermediate"
      [] difficulty = "intermediate_advanced" -> "Intermediate/Advanced"
      [] difficulty = "advanced" -> "Advanced"

RECURSIVE join(_, _)
\* separator.join(texts)
join(texts, separator) ==
    IF texts = <<>> THEN <<>>
    ELSE IF Len(texts) = 1 THEN texts[1]
    ELSE texts[1] \o separator \o join(Tail(texts), separator)

\* the context string of _ask_next_question: the questions of the last two
\* turns, each cut to 100
question_context(history) ==
    IF history = <<>> THEN <<>>
    ELSE LET recent == last_items(history, 2)
         IN  <<"Previous questions covered: ">>
             \o join([i \in 1..Len(recent) |-> truncate(recent[i].question.val, 100)],
                     <<";", " ">>)

\* the marker line of a question
question_marker(n, difficulty) ==
    <<"**Question ", ToString(n), " (", difficulty_title(difficulty), "):**", "\n", "\n">>

\* a question step whose text depends on more than the session and the
\* question the gateway returned
ask_next_question_by_chance(s, uq) ==
    LET n == s.current_question_number + 1
        s1 == [s EXCEPT !.current_question_number = n]
        difficulty == question_difficulty(s.total_questions, n)
        context == question_context(s.conversation_history)
        question == generate_question(difficulty, n, context, uq)
        call == GatewayCall("generate_question", difficulty, n, context,
                            <<>>, NoQuestion, Len(s.evaluations))
        s2 == [s1 EXCEPT !.questions_asked = Append(@, question)]
    IN  Outcome(s2, <<call>>, "none",
                IF uq.kind = "no_json"
                THEN fmt(question.question)
                ELSE question_marker(n, difficulty) \o fmt(question.question))

\* a question step that asks the gateway again when it got the fallback
ask_next_question_retrying(s, uq) ==
    LET n == s.current_question_number + 1
        s1 == [s EXCEPT !.current_question_number = n]
        difficulty == question_difficulty(s.total_questions, n)
        context == question_context(s.conversation_history)
        question == generate_question(difficulty, n, context, uq)
        call == GatewayCall("generate_question", difficulty, n, context,
                            <<>>, NoQuestion, Len(s.evaluations))
        s2 == [s1 EXCEPT !.questions_asked = Append(@, question)]
    IN  Outcome(s2, IF uq.kind = "json" THEN <<call>> ELSE <<call, call>>, "none",
                question_marker(n, difficulty) \o fmt(question.question))

\* _ask_next_question
ask_next_question(s, uq) ==
    LET n == s.current_question_number + 1
        s1 == [s EXCEPT !.current_question_number = n]
        difficulty == question_difficulty(s.total_questions, n)
        recent == last_items(s.conversation_history, 2)
    IN  IF \E i \in 1..Len(recent) : ~sliceable(recent[i].question)
        THEN Outcome(s1, <<>>, "TypeError", <<>>)
        ELSE
        LET context == question_context(s.conversation_history)
            question == generate_question(difficulty, n, context, uq)
            call == GatewayCall("generate_question", difficulty, n, context,
                                <<>>, NoQuestion, Len(s.evaluations))
            s2 == [s1 EXCEPT !.questions_asked = Append(@, question)]
        IN  IF question.question.type = "absent"
            THEN Outcome(s2, <<call>>, "KeyError", <<>>)
            ELSE Outcome(s2, <<call>>, "none",
                         question_marker(n, difficulty) \o fmt(question.question))

readiness_prompt == <<"I understand you might need a moment. When you're ready to begin the Excel proficiency assessment, just let me know by typing 'ready' or 'yes'.">>

\* an introduction handler that marks the session ready whatever the input
handle_introduction_phase_marks_ready(s, user_input, uq) ==
    IF user_input \in affirmative_inputs
    THEN ask_next_question([s EXCEPT !.is_ready = TRUE, !.phase = "questioning"], uq)
    ELSE Outcome([s EXCEPT !.is_ready = TRUE], <<>>, "none", readiness_prompt)

\* _handle_introduction_phase
handle_introduction_phase(s, user_input, uq) ==
    IF user_input \in affirmative_inputs
    THEN ask_next_question([s EXCEPT !.is_ready = TRUE, !.phase = "questioning"], uq)
    ELSE Outcome(s, <<>>, "none", readiness_prompt)

completion_notice(total) ==
    <<"\n", "\n", "Thank you for completing all ", ToString(total),
      " questions! Let me generate your comprehensive feedback report...">>

\* an answer that takes the place of the answers before it
store_response_restarting(s, user_input) ==
    [s EXCEPT !.user_responses = IF @ = <<>> THEN <<user_input>> ELSE <<>>]

\* an answer that is not stored
store_response_dropped(s, user_input) == s

\* self.user_responses.append(user_input)
store_response(s, user_input) ==
    [s EXCEPT !.user_responses = Append(@, user_input)]

\* _handle_questioning_phase
handle_questioning_phase(s, user_input, ue, uf, uq) ==
    IF s.current_question_number = 0
    THEN ask_next_question(s, uq)
    ELSE
    LET s1 == store_response(s, user_input)
    IN  IF s.current_question_number > Len(s.questions_asked)
        THEN Outcome(s1, <<>>, "IndexError", <<>>)
        ELSE
        LET current_question == s.questions_asked[s.current_question_number]
            turn == [question |-> get(current_question.question, <<>>),
                     answer |-> user_input,
                     question_number |-> s.current_question_number]
            s2 == [s1 EXCEPT !.conversation_history = Append(@, turn)]
            evaluation == evaluate_answer(current_question, user_input, ue)
            call_e == GatewayCall("evaluate_answer", "", 0, <<>>, user_input,
                                  current_question, Len(s2.evaluations))
            feedback == conduct_interview_response(user_input, current_question,
                                                   s2.conversation_history, uf)
            call_f == GatewayCall("conduct_interview_response", "", 0, <<>>,
                                  user_input, current_question, Len(s2.evaluations))
            s3 == [s2 EXCEPT !.evaluations = Append(@, evaluation)]
        IN  IF feedback.raised # "none"
            THEN Outcome(s2, <<call_e, call_f>>, feedback.raised, <<>>)
            ELSE IF s.current_question_number < s.total_questions
            THEN LET next == ask_next_question(s3, uq)
                 IN  Outcome(next.s, <<call_e, call_f>> \o next.calls, next.raised,
                             IF next.raised = "none"
                             THEN feedback.text \o <<"\n", "\n">> \o next.text
                             ELSE <<>>)
            ELSE Outcome([s3 EXCEPT !.phase = "conclusion"], <<call_e, call_f>>,
                         "none", feedback.text \o completion_notice(s.total_questions))

\* a conclusion handler that asks for the report twice
handle_conclusion_phase_twice(s, ur) ==
    LET report == generate_final_report(s.questions_asked, s.user_responses,
                                        s.evaluations, ur)
        call == GatewayCall("generate_final_report", "", 0, <<>>, <<>>,
                            NoQuestion, Len(s.evaluations))
    IN  Outcome(s, <<call, call>>, report.raised, report.text)

\* a conclusion handler that uses up the evaluations it reports on
handle_conclusion_phase_consumes(s, ur) ==
    LET report == generate_final_report(s.questions_asked, s.user_responses,
                                        s.evaluations, ur)
    IN  Outcome([s EXCEPT !.evaluations = <<>>],
                <<GatewayCall("generate_final_report", "", 0, <<>>, <<>>,
                              NoQuestion, Len(s.evaluations))>>,
                report.raised, report.text)

\* _handle_conclusion_phase
handle_conclusion_phase(s, ur) ==
    LET report == generate_final_report(s.questions_asked, s.user_responses,
                                        s.evaluations, ur)
    IN  Outcome(s, <<GatewayCall("generate_final_report", "", 0, <<>>, <<>>,
                                 NoQuestion, Len(s.evaluations))>>,
                report.raised, report.text)

\* a dispatcher that generates the report in the call of the last answer
process_user_input_reports_at_once(s, raw, ue, uf, uq, ur) ==
    LET user_input == normalized[raw]
    IN  CASE s.phase = "introduction" -> handle_introduction_phase(s, user_input, uq)
          [] s.phase = "questioning" ->
               LET o == handle_questioning_phase(s, user_input, ue, uf, uq)
                   r == handle_conclusion_phase(o.s, ur)
               IN  IF o.s.phase = "conclusion"
                   THEN Outcome(r.s, o.calls \o r.calls, r.raised, r.text)
                   ELSE o
          [] s.phase = "conclusion" -> handle_conclusion_phase(s, ur)

\* process_user_input: the input is stripped and lower-cased, then handled by
\* the handler of the current phase
process_user_input(s, raw, ue, uf, uq, ur) ==
    LET user_input == normalized[raw]
    IN  CASE s.phase = "introduction" -> handle_introduction_phase(s, user_input, uq)
          [] s.phase = "questioning" ->
               handle_questioning_phase(s, user_input, ue, uf, uq)
          [] s.phase = "conclusion" -> handle_conclusion_phase(s, ur)

\* the text start_interview returns
introduction(total) ==
    <<"<introduction>", "I will ask you ",
      (CASE total = 3 -> "THREE" [] total = 4 -> "FOUR" [] total = 5 -> "FIVE"
         [] OTHER -> ToString(total)),
      " questions that progressively increase in difficulty">>

\* a state view that reports the answers as the questions asked
interview_state_counting_answers(s) ==
    [phase |-> s.phase,
     current_question_number |-> s.current_question_number,
     total_questions |-> s.total_questions,
     questions_asked |-> Len(s.user_responses),
     responses_received |-> Len(s.user_responses),
     is_ready |-> s.is_ready]

\* the dict get_interview_state returns
interview_state(s) ==
    [phase |-> s.phase,
     current_question_number |-> s.current_question_number,
     total_questions |-> s.total_questions,
     questions_asked |-> Len(s.questions_asked),
     responses_received |-> Len(s.user_responses),
     is_ready |-> s.is_ready]

-----------------------------------------------------------------------------
(* The state machine *)

NoState ==
    [phase |-> "", current_question_number |-> 0, total_questions |-> 0,
     questions_asked |-> 0, responses_received |-> 0, is_ready |-> FALSE]

Returned(text) == [raised |-> "none", text |-> text, state |-> NoState]

\* The full traversal is start_interview, an affirmative input, one answer per
\* question, one conclusion call.  script counts the calls of the run while
\* the run is a prefix of it, and is -1 once the run has left it.
script_after(op, raw) ==
    CASE op = "start_interview" -> IF script = 0 THEN 1 ELSE -1
      [] op = "process_user_input" ->
           IF script = 1
           THEN (IF normalized[raw] \in affirmative_inputs THEN 2 ELSE -1)
           ELSE IF script >= 2 /\ script <= total_questions + 2 THEN script + 1
           ELSE -1
      [] OTHER -> -1

\* __init__
InitSession ==
    /\ phase = "introduction"
    /\ current_question_number = 0
    /\ user_responses = <<>>
    /\ evaluations = <<>>
    /\ questions_asked = <<>>
    /\ conversation_history = <<>>
    /\ is_ready = FALSE
    /\ last_call = [op |-> "__init__", input |-> <<>>]
    /\ result = Returned(<<>>)
    /\ gateway_calls = <<>>
    /\ script = 0
    /\ malformed = 0

Init ==
    /\ InitSession
    /\ outage = FALSE
    /\ total_questions \in 1..MaxTotal

InitOutage ==
    /\ InitSession
    /\ outage = TRUE
    /\ total_questions \in 1..MaxOutageTotal

\* start_interview
StartInterview ==
    /\ phase' = "introduction"
    /\ last_call' = [op |-> "start_interview", input |-> <<>>]
    /\ result' = Returned(introduction(total_questions))
    /\ gateway_calls' = <<>>
    /\ script' = script_after("start_interview", <<>>)
    /\ UNCHANGED <<current_question_number, total_questions, user_responses,
                   evaluations, questions_asked, conversation_history, is_ready,
                   outage, malformed>>

\* The three ways an upstream call fails end in the same except clause of the
\* gateway, so a session run takes the raised error to stand for them.
SessionUpstream(responses) == {u \in responses : u.kind \in {"error", "json"}}

\* The upstream responses one process_user_input call can meet, as
\* <<evaluation, feedback, question, report>>: only the calls the phase makes
\* vary.
UpstreamResponses ==
    LET ue0 == CHOOSE u \in UpstreamEvaluation : u.kind = "error"
        uq0 == CHOOSE u \in UpstreamQuestion : u.kind = "error"
        ut0 == [kind |-> "error", payload |-> <<>>]
    IN  CASE phase = "introduction" ->
               {<<ue0, ut0, uq, ut0>> : uq \in SessionUpstream(UpstreamQuestion)}
          [] phase = "questioning" ->
               {<<ue, uf, uq, ut0>> :
                   ue \in SessionUpstream(UpstreamEvaluation),
                   uf \in UpstreamText("<model feedback text>"),
                   uq \in IF current_question_number = 0
                             \/ current_question_number < total_questions
                          THEN SessionUpstream(UpstreamQuestion) ELSE {uq0}}
          [] phase = "conclusion" ->
               {<<ue0, ut0, uq0, ur>> : ur \in UpstreamText("<model report text>")}

\* The texts the caller passes in each phase; the conclusion handler ignores
\* its input.  The length of an answer matters to the gateway's fallback
\* paths alone: the runs with the upstream model down take both answers, the
\* others the long one; with the upstream model down the answers at the
\* boundary of the heuristic are given in the one-question interviews and the
\* longest answer in the four-question ones.
CallerInputs ==
    CASE phase = "introduction" -> ReadinessInputs
      [] phase = "questioning" ->
            IF outage
            THEN AnswerInputs \cup
                 (IF total_questions = 1 THEN BoundaryInputs
                  ELSE IF total_questions = 4 THEN LongInputs ELSE {})
            ELSE {InputFormula}
      [] phase = "conclusion" -> {InputNah}

\* whether the call made the gateway operation op
called(calls, op) == \E i \in 1..Len(calls) : calls[i].op = op

\* the malformed JSON objects the call's gateway operations received
malformed_received(calls, ue, uq) ==
    (IF called(calls, "evaluate_answer") /\ ue.kind = "json"
        /\ malformed_evaluation(ue.payload) THEN 1 ELSE 0)
    + (IF called(calls, "generate_question") /\ uq.kind = "json"
         /\ malformed_question(uq.payload) THEN 1 ELSE 0)

\* process_user_input(raw).  The run is cut off once the session holds one
\* question or one answer more than total_questions.
ProcessUserInput ==
    \E raw \in CallerInputs, up \in UpstreamResponses :
        LET o == process_user_input(Session, raw, up[1], up[2], up[3], up[4])
        IN  /\ o.s.current_question_number <= total_questions + 1
            /\ Len(o.s.user_responses) <= total_questions + 1
            /\ malformed + malformed_received(o.calls, up[1], up[3]) <= MaxMalformed
            /\ malformed' = malformed + malformed_received(o.calls, up[1], up[3])
            /\ phase' = o.s.phase
            /\ current_question_number' = o.s.current_question_number
            /\ user_responses' = o.s.user_responses
            /\ evaluations' = o.s.evaluations
            /\ questions_asked' = o.s.questions_asked
            /\ conversation_history' = o.s.conversation_history
            /\ is_ready' = o.s.is_ready
            /\ last_call' = [op |-> "process_user_input", input |-> raw]
            /\ result' = [raised |-> o.raised, text |-> o.text, state |-> NoState]
            /\ gateway_calls' = o.calls
            /\ script' = script_after("process_user_input", raw)
            /\ UNCHANGED <<total_questions, outage>>

\* get_interview_state
GetInterviewState ==
    /\ last_call' = [op |-> "get_interview_state", input |-> <<>>]
    /\ result' = [raised |-> "none", text |-> <<>>, state |-> interview_state(Session)]
    /\ gateway_calls' = <<>>
    /\ script' = script_after("get_interview_state", <<>>)
    /\ UNCHANGED <<phase, current_question_number, total_questions, user_responses,
                   evaluations, questions_asked, conversation_history, is_ready,
                   outage, malformed>>

\* a reset that clears the lists and keeps the phase
ResetInterview_keeps_phase ==
    /\ current_question_number' = 0
    /\ user_responses' = <<>>
    /\ evaluations' = <<>>
    /\ questions_asked' = <<>>
    /\ conversation_history' = <<>>
    /\ is_ready' = FALSE
    /\ last_call' = [op |-> "reset_interview", input |-> <<>>]
    /\ result' = Returned(<<>>)
    /\ gateway_calls' = <<>>
    /\ script' = script_after("reset_interview", <<>>)
    /\ UNCHANGED <<phase, total_questions, outage, malformed>>

\* reset_interview
ResetInterview ==
    /\ phase' = "introduction"
    /\ current_question_number' = 0
    /\ user_responses' = <<>>
    /\ evaluations' = <<>>
    /\ questions_asked' = <<>>
    /\ conversation_history' = <<>>
    /\ is_ready' = FALSE
    /\ last_call' = [op |-> "reset_interview", input |-> <<>>]
    /\ result' = Returned(<<>>)
    /\ gateway_calls' = <<>>
    /\ script' = script_after("reset_interview", <<>>)
    /\ UNCHANGED <<total_questions, outage, malformed>>

Next ==
    \/ StartInterview
    \/ ProcessUserInput
    \/ GetInterviewState
    \/ ResetInterview

Spec == Init /\ [][Next]_vars

SpecOutage == InitOutage /\ [][Next]_vars

-----------------------------------------------------------------------------
(* Claims *)

Lengths == <<Len(questions_asked), Len(user_responses), Len(evaluations)>>

PhaseRank(p) ==
    CASE p = "introduction" -> 1 [] p = "questioning" -> 2 [] p = "conclusion" -> 3

\* C1: for total_questions in {1,3,4,5,7}, start_interview, an affirmative
\* input and total_questions answers leave exactly total_questions questions,
\* answers and evaluations and the phase conclusion, and the conclusion call
\* that follows returns the report without raising.
C1_FullTraversal ==
    total_questions \in {1, 3, 4, 5, 7} =>
        /\ script = total_questions + 2 =>
              /\ Lengths = <<total_questions, total_questions, total_questions>>
              /\ phase = "conclusion"
        /\ script = total_questions + 3 => result.raised = "none"

\* C2: no call other than reset_interview moves the phase backward, and the
\* phase conclusion is never left by such a call.
C2_PhaseNeverBackward ==
    [][last_call'.op # "reset_interview" => PhaseRank(phase) <= PhaseRank(phase')]_vars

C4_QuestionNumberBound == current_question_number <= total_questions

\* C5: in the phase introduction an affirmative input sets the phase to
\* questioning and is_ready to true, makes current_question_number 1 and
\* appends exactly one question.
C5_AffirmativeStartsFirstQuestion ==
    [][(/\ phase = "introduction"
        /\ last_call'.op = "process_user_input"
        /\ last_call'.input \in {InputReady, InputYesPlease})
       => (/\ phase' = "questioning"
           /\ is_ready'
           /\ current_question_number' = 1
           /\ Len(questions_asked') = Len(questions_asked) + 1)]_vars

\* C6: in the phase introduction an input without an affirmative token
\* returns the readiness prompt, makes no gateway call and leaves the
\* session's fields unchanged.
C6_NonAffirmativeKeepsIntroduction ==
    [][(/\ phase = "introduction"
        /\ last_call'.op = "process_user_input"
        /\ last_call'.input = InputNah)
       => (/\ result'.raised = "none"
           /\ result'.text = readiness_prompt
           /\ gateway_calls' = <<>>
           /\ UNCHANGED <<phase, is_ready, current_question_number, questions_asked,
                          user_responses, evaluations, conversation_history>>)]_vars

\* "nah" has been given in the phase introduction
C6_Witness ==
    /\ last_call = [op |-> "process_user_input", input |-> InputNah]
    /\ phase = "introduction"
    /\ result.text = readiness_prompt
    /\ ~is_ready

\* the table of difficulties for 3, 4 and 5 questions
DifficultyTable ==
    [total \in {3, 4, 5} |->
        CASE total = 3 -> <<"intermediate", "intermediate_advanced", "advanced">>
          [] total = 4 -> <<"intermediate", "intermediate", "intermediate_advanced",
                            "advanced">>
          [] total = 5 -> <<"intermediate", "intermediate", "intermediate_advanced",
                            "intermediate_advanced", "advanced">>]

\* C7: for total_questions 3, 4 and 5 the difficulty requested for each
\* question 1..total_questions is the one of the table.
C7_DifficultyTable ==
    \A i \in 1..Len(gateway_calls) :
        (/\ gateway_calls[i].op = "generate_question"
         /\ total_questions \in {3, 4, 5}
         /\ gateway_calls[i].question_number <= total_questions)
        => gateway_calls[i].difficulty_level
             = DifficultyTable[total_questions][gateway_calls[i].question_number]

\* question 4 of 5 has been requested
C7_Witness ==
    /\ total_questions = 5
    /\ \E i \in 1..Len(gateway_calls) :
          /\ gateway_calls[i].op = "generate_question"
          /\ gateway_calls[i].question_number = 4
          /\ gateway_calls[i].difficulty_level = "intermediate_advanced"

\* C8: for any other total_questions N, question k of 1..N is requested as
\* intermediate when k <= N div 3, as intermediate_advanced when
\* N div 3 < k <= 2 * (N div 3), and as advanced otherwise.
C8_DifficultyThirds ==
    \A i \in 1..Len(gateway_calls) :
        LET k == gateway_calls[i].question_number
            d == gateway_calls[i].difficulty_level
        IN  (/\ gateway_calls[i].op = "generate_question"
             /\ total_questions \notin {3, 4, 5}
             /\ k <= total_questions)
            => /\ (k <= total_questions \div 3) => d = "intermediate"
               /\ (total_questions \div 3 < k /\ k <= 2 * (total_questions \div 3))
                    => d = "intermediate_advanced"
               /\ (k > 2 * (total_questions \div 3)) => d = "advanced"

\* question 4 of 7 has been requested, and question 2 of 7
C8_Witness ==
    /\ total_questions = 7
    /\ \E i \in 1..Len(gateway_calls) :
          /\ gateway_calls[i].op = "generate_question"
          /\ gateway_calls[i].question_number = 4
          /\ gateway_calls[i].difficulty_level = "intermediate_advanced"

\* C9: in the phase questioning with current_question_number equal to
\* total_questions, an answer is recorded with its evaluation, the phase
\* becomes conclusion, generate_question is not called, and
\* current_question_number and the number of questions asked stay the same.
C9_LastAnswerConcludes ==
    [][(/\ phase = "questioning"
        /\ current_question_number = total_questions
        /\ last_call'.op = "process_user_input")
       => (/\ Len(user_responses') = Len(user_responses) + 1
           /\ Len(evaluations') = Len(evaluations) + 1
           /\ phase' = "conclusion"
           /\ ~called(gateway_calls', "generate_question")
           /\ current_question_number' = current_question_number
           /\ Len(questions_asked') = Len(questions_asked))]_vars

\* C10: in the phase questioning with current_question_number below
\* total_questions, an answer raises current_question_number by one, appends
\* one question, keeps the phase, and returns the feedback followed by the
\* next question under the marker "Question k+1".
C10_AnswerAdvances ==
    [][(/\ phase = "questioning"
        /\ current_question_number >= 1
        /\ current_question_number < total_questions
        /\ last_call'.op = "process_user_input")
       => (/\ current_question_number' = current_question_number + 1
           /\ Len(questions_asked') = Len(questions_asked) + 1
           /\ phase' = "questioning"
           /\ result'.raised = "none"
           /\ \E i \in 2..(Len(result'.text) - 1) :
                 /\ result'.text[i] = "**Question "
                 /\ result'.text[i + 1] = ToString(current_question_number + 1))]_vars

\* C11: the call that records the last answer and moves the session to the
\* phase conclusion does not call generate_final_report; the report is
\* generated only by a call made while the phase is already conclusion.
C11_ReportOnlyInConclusion ==
    [][last_call'.op = "process_user_input"
       => /\ called(gateway_calls', "generate_final_report") => phase = "conclusion"
          /\ (phase = "questioning" /\ phase' = "conclusion")
               => ~called(gateway_calls', "generate_final_report")]_vars

\* the last answer has just been recorded and the completion notice returned
C11_Witness ==
    /\ phase = "conclusion"
    /\ last_call.op = "process_user_input"
    /\ last_call.input = InputFormula
    /\ called(gateway_calls, "conduct_interview_response")
    /\ ~called(gateway_calls, "generate_final_report")
    /\ Len(evaluations) = total_questions

\* the outcomes generate_final_report has on the session's lists
Reports ==
    {generate_final_report(questions_asked, user_responses, evaluations, ur) :
        ur \in UpstreamText("<model report text>")}

\* C12: a conclusion call leaves phase, current_question_number,
\* questions_asked, user_responses, evaluations and conversation_history
\* unchanged, so two consecutive conclusion calls pass the same arguments to
\* generate_final_report and their outcomes are drawn from the same arguments:
\* they are equal when the gateway answers both calls alike.
C12_ConclusionCallIdempotent ==
    [][(phase = "conclusion" /\ last_call'.op = "process_user_input")
       => /\ UNCHANGED <<phase, current_question_number, questions_asked,
                         user_responses, evaluations, conversation_history>>
          /\ called(gateway_calls', "generate_final_report")
          /\ [raised |-> result'.raised, text |-> result'.text] \in Reports
          /\ called(gateway_calls, "generate_final_report")
               => /\ gateway_calls' = gateway_calls
                  /\ [raised |-> result.raised, text |-> result.text] \in Reports
                  /\ Cardinality(Reports) = 1 => result' = result]_vars

\* a conclusion call has returned the templated report
C12_Witness ==
    /\ phase = "conclusion"
    /\ last_call.op = "process_user_input"
    /\ called(gateway_calls, "generate_final_report")
    /\ result.raised = "none"
    /\ result.text = get_basic_report(evaluations)
    /\ script = -1

\* whether the four scores of an evaluation are numbers within [0, 10]
ScoresInRange(e) ==
    \A f \in ScoreFields : e[f].type = "num" /\ e[f].n >= 0 /\ e[f].n <= 10

\* whether an evaluation holds the four scores within [0, 10] together with
\* feedback, strengths, areas_for_improvement and recommendation
CompleteEvaluation(e) ==
    /\ ScoreFields \cup {"feedback", "strengths", "areas_for_improvement",
                         "recommendation"} \subseteq DOMAIN e
    /\ ScoresInRange(e)
    /\ e.feedback.type = "str"
    /\ e.recommendation.type = "str"

\* C13: when the upstream call always fails (it raises, or returns text
\* without a JSON object), evaluate_answer returns for every answer a record
\* with the four scores within [0, 10] and with feedback, strengths,
\* areas_for_improvement and recommendation, and the call that made it
\* raises nothing.
C13_EvaluationUnderFailure ==
    outage =>
        /\ \A i \in 1..Len(gateway_calls) :
               gateway_calls[i].op = "evaluate_answer" =>
                  /\ result.raised = "none"
                  /\ \A up \in UpstreamEvaluation :
                        /\ up.kind \in {"error", "no_json", "bad_json"}
                        /\ CompleteEvaluation(
                              evaluate_answer(gateway_calls[i].question,
                                              gateway_calls[i].user_answer, up))
        /\ \A i \in 1..Len(evaluations) : CompleteEvaluation(evaluations[i])

\* with the upstream model down a short and a long answer have been evaluated
C13_Witness ==
    /\ outage
    /\ called(gateway_calls, "evaluate_answer")
    /\ \E i, j \in 1..Len(evaluations) :
          /\ evaluations[i].overall_score = NumScore(3)
          /\ evaluations[j].overall_score = NumScore(5)

\* C14: every evaluation of the session has each of its four scores as a
\* number within [0, 10], whatever JSON object the upstream model sent.
C14_ScoresAlwaysInRange ==
    \A i \in 1..Len(evaluations) : ScoresInRange(evaluations[i])

\* C15: generate_question always returns a question with a question body and
\* an ideal solution, so every question of the session has both and the step
\* of _ask_next_question that reads the body never raises KeyError.
C15_QuestionAlwaysComplete ==
    /\ \A i \in 1..Len(questions_asked) :
          /\ questions_asked[i].question.type # "absent"
          /\ questions_asked[i].ideal_solution.type # "absent"
    /\ result.raised # "KeyError"

\* the templated message that names the ideal solution of a question
TemplatedFeedback(question) ==
    <<"Thank you for your answer. ",
      "Thank you for your answer. The ideal solution would be: ">>
    \o fmt(get(question.ideal_solution, <<"N/A">>))

\* C16: conduct_interview_response never raises to its caller, and when the
\* upstream call fails it returns, for every answer, the templated message
\* that names the ideal solution of the question.
C16_FeedbackNeverRaises ==
    \A i \in 1..Len(gateway_calls) :
        gateway_calls[i].op = "conduct_interview_response" =>
            \A uf \in UpstreamText("<model feedback text>") :
                LET feedback ==
                        conduct_interview_response(gateway_calls[i].user_answer,
                                                   gateway_calls[i].question,
                                                   conversation_history, uf)
                IN  /\ feedback.raised = "none"
                    /\ uf.kind = "error"
                         => feedback.text = TemplatedFeedback(gateway_calls[i].question)

\* C17: on the non-empty evaluations of a session generate_final_report
\* never raises, and when the upstream call fails it returns the non-empty
\* templated summary computed from the averages.
C17_ReportNeverRaises ==
    (called(gateway_calls, "generate_final_report") /\ evaluations # <<>>) =>
        \A ur \in UpstreamText("<model report text>") :
            LET report == generate_final_report(questions_asked, user_responses,
                                                evaluations, ur)
            IN  /\ report.raised = "none"
                /\ ur.kind = "error"
                     => /\ report.text = get_basic_report(evaluations)
                        /\ report.text # <<>>

\* a session that awaits the answer to question current_question_number and
\* holds an answer and an evaluation for every question before it
OnTrack ==
    /\ phase = "questioning"
    /\ current_question_number \in 1..total_questions
    /\ Lengths = <<current_question_number, current_question_number - 1,
                   current_question_number - 1>>

\* C18: when every upstream call fails, no call raises; an affirmative input
\* on a fresh session starts question 1, each answer but the last brings the
\* next question, the answer to question total_questions brings the phase
\* conclusion with total_questions answers, and the conclusion call returns
\* the non-empty templated report.
C18_TotalFailureStillConcludes ==
    [][(outage /\ last_call'.op = "process_user_input")
       => /\ result'.raised = "none"
          /\ (/\ phase = "introduction"
              /\ current_question_number = 0
              /\ Lengths = <<0, 0, 0>>
              /\ last_call'.input \in {InputReady, InputYesPlease})
               => (OnTrack' /\ current_question_number' = 1)
          /\ (OnTrack /\ current_question_number < total_questions)
               => (OnTrack' /\ current_question_number' = current_question_number + 1)
          /\ (OnTrack /\ current_question_number = total_questions)
               => /\ phase' = "conclusion"
                  /\ Lengths' = <<total_questions, total_questions, total_questions>>
          /\ phase = "conclusion"
               => /\ result'.text # <<>>
                  /\ result'.text = get_basic_report(evaluations)]_vars

\* with the upstream model down a session of three questions has concluded
\* on track and returned its report
C18_Witness ==
    /\ outage
    /\ total_questions = 3
    /\ script = total_questions + 3
    /\ phase = "conclusion"
    /\ Lengths = <<3, 3, 3>>
    /\ called(gateway_calls, "generate_final_report")
    /\ result.text = get_basic_report(evaluations)

\* C19: whenever the phase is conclusion, current_question_number equals
\* total_questions.
C19_ConclusionAtLastQuestion ==
    phase = "conclusion" => current_question_number = total_questions

\* C20: every call of generate_final_report made through process_user_input
\* is given a non-empty list of evaluations, so that it never divides by
\* zero: the phase conclusion always comes with at least one evaluation.
C20_ReportHasEvaluations ==
    /\ phase = "conclusion" => evaluations # <<>>
    /\ \A i \in 1..Len(gateway_calls) :
          gateway_calls[i].op = "generate_final_report" =>
              /\ gateway_calls[i].n_evaluations >= 1
              /\ gateway_calls[i].n_evaluations = Len(evaluations)
              /\ result.raised # "ZeroDivisionError"

\* the report has been asked for in a session of two questions
C20_Witness ==
    /\ total_questions = 2
    /\ phase = "conclusion"
    /\ last_call.op = "process_user_input"
    /\ called(gateway_calls, "generate_final_report")
    /\ Len(evaluations) >= 2

\* the characters of a text as one string
RECURSIVE Chars(_)
Chars(text) ==
    IF text = <<>> THEN ""
    ELSE IF Len(text) = 1 THEN text[1]
    ELSE LET half == Len(text) \div 2
         IN  Chars(SubSeq(text, 1, half)) \o Chars(SubSeq(text, half + 1, Len(text)))

\* the first 100 characters of a string
Cut100(string) == SubSeq(string, 1, IF Len(string) < 100 THEN Len(string) ELSE 100)

\* C21: the context given to generate_question is empty when there is no
\* conversation turn, and is otherwise built from the last turn, or the last
\* two, each giving the first 100 characters of its question; no earlier
\* turn contributes.
C21_ContextWindow ==
    \A i \in 1..Len(gateway_calls) :
        gateway_calls[i].op = "generate_question" =>
            LET n == Len(conversation_history)
                q(k) == Cut100(Chars(conversation_history[k].question.val))
                context == Chars(gateway_calls[i].context)
            IN  CASE n = 0 -> context = ""
                  [] n = 1 -> context = "Previous questions covered: " \o q(1)
                  [] OTHER -> context = "Previous questions covered: "
                                        \o q(n - 1) \o "; " \o q(n)

\* question 4 has been requested after three turns whose questions are
\* longer than 100 characters
C21_Witness ==
    /\ Len(conversation_history) = 3
    /\ \A k \in 1..3 : Len(Chars(conversation_history[k].question.val)) > 100
    /\ \E i \in 1..Len(gateway_calls) :
          /\ gateway_calls[i].op = "generate_question"
          /\ gateway_calls[i].question_number = 4
          /\ Len(Chars(gateway_calls[i].context)) = 230

\* the gateway operations of the last call, in the order they were made
CallOps == [i \in 1..Len(gateway_calls) |-> gateway_calls[i].op]

\* C22: one call of process_user_input makes at most two gateway calls:
\* evaluate_answer then conduct_interview_response, or one generate_question,
\* or one generate_final_report.
C22_AtMostTwoCalls ==
    CallOps \in { <<>>, <<"generate_question">>, <<"generate_final_report">>,
                  <<"evaluate_answer", "conduct_interview_response">> }

\* C22 as amended: one call makes at most three gateway calls:
\* evaluate_answer, conduct_interview_response and, after an answer that is
\* not the last, generate_question, in this order; or one generate_question;
\* or one generate_final_report.
C22_AtMostThreeCalls ==
    CallOps \in { <<>>, <<"generate_question">>, <<"generate_final_report">>,
                  <<"evaluate_answer", "conduct_interview_response">>,
                  <<"evaluate_answer", "conduct_interview_response",
                    "generate_question">> }

\* an answer has been evaluated, given feedback and followed by a question
C22_Witness ==
    /\ last_call.op = "process_user_input"
    /\ result.raised = "none"
    /\ CallOps = <<"evaluate_answer", "conduct_interview_response", "generate_question">>

\* C23: within one call of process_user_input each gateway operation is
\* called at most once, whether the gateway returned the model's result or
\* its fallback.
C23_NoRetry ==
    \A i, j \in 1..Len(gateway_calls) :
        gateway_calls[i].op = gateway_calls[j].op => i = j

\* the gateway returned the fallback question and was not asked again
C23_Witness ==
    /\ ~outage
    /\ last_call.op = "process_user_input"
    /\ called(gateway_calls, "generate_question")
    /\ questions_asked # <<>>
    /\ questions_asked[Len(questions_asked)].generated_by = "<absent>"
    /\ Len(gateway_calls) = 3

\* C24: get_interview_state changes no field of the session and returns
\* phase, current_question_number, total_questions, the number of questions
\* asked, the number of answers and is_ready as they are when it is called.
C24_StateViewReadOnly ==
    [][last_call'.op = "get_interview_state"
       => /\ UNCHANGED <<phase, current_question_number, total_questions,
                         user_responses, evaluations, questions_asked,
                         conversation_history, is_ready>>
          /\ result'.raised = "none"
          /\ result'.state.phase = phase
          /\ result'.state.current_question_number = current_question_number
          /\ result'.state.total_questions = total_questions
          /\ result'.state.questions_asked = Len(questions_asked)
          /\ result'.state.responses_received = Len(user_responses)
          /\ result'.state.is_ready = is_ready]_vars

\* the state has been read while question 2 awaits its answer
C24_Witness ==
    /\ last_call.op = "get_interview_state"
    /\ result.state.phase = "questioning"
    /\ result.state.current_question_number = 2
    /\ result.state.questions_asked = 2
    /\ result.state.responses_received = 1
    /\ result.state.is_ready

\* C25: in the phase questioning the answer appended to user_responses,
\* stored in the appended conversation turn and passed to evaluate_answer is
\* the text the caller passed to process_user_input, as it was passed.
C25_RawAnswerStored ==
    [][(/\ phase = "questioning"
        /\ current_question_number >= 1
        /\ last_call'.op = "process_user_input")
       => /\ Len(user_responses') = Len(user_responses) + 1
          /\ user_responses'[Len(user_responses')] = last_call'.input
          /\ Len(conversation_history') = Len(conversation_history) + 1
               => conversation_history'[Len(conversation_history')].answer
                    = last_call'.input
          /\ \A i \in 1..Len(gateway_calls') :
                gateway_calls'[i].op = "evaluate_answer"
                  => gateway_calls'[i].user_answer = last_call'.input]_vars

\* C26: every question of questions_asked carries a difficulty label and a
\* question number, equal to the difficulty and the number the session
\* requested for it, whether the model or the fallback supplied it.
C26_QuestionsLabelled ==
    /\ \A i \in 1..Len(questions_asked) :
          /\ questions_asked[i].difficulty_level \in Difficulties
          /\ questions_asked[i].question_number >= 1
    /\ \A i \in 1..Len(gateway_calls) :
          (gateway_calls[i].op = "generate_question" /\ questions_asked # <<>>)
          => LET question == questions_asked[Len(questions_asked)]
             IN  /\ question.difficulty_level = gateway_calls[i].difficulty_level
                 /\ question.question_number = gateway_calls[i].question_number

\* whether the list before is the beginning of the list after
IsPrefix(before, after) ==
    /\ Len(before) <= Len(after)
    /\ SubSeq(after, 1, Len(before)) = before

\* C27: across every operation other than reset_interview the lists
\* questions_asked, user_responses and evaluations only grow at their end:
\* no question, answer or evaluation is removed, replaced or modified.
C27_AppendOnly ==
    [][last_call'.op # "reset_interview"
       => /\ IsPrefix(questions_asked, questions_asked')
          /\ IsPrefix(user_responses, user_responses')
          /\ IsPrefix(evaluations, evaluations')]_vars

\* a second answer has been recorded and evaluated after the first
C27_Witness ==
    /\ last_call.op = "process_user_input"
    /\ Len(questions_asked) >= 2
    /\ Len(user_responses) >= 2
    /\ Len(evaluations) >= 2

\* the session __init__ leaves behind for total questions
FreshSession(total) ==
    [phase |-> "introduction", current_question_number |-> 0,
     total_questions |-> total, user_responses |-> <<>>, evaluations |-> <<>>,
     questions_asked |-> <<>>, conversation_history |-> <<>>, is_ready |-> FALSE]

\* C28: reset_interview, called in any state, restores the state of a fresh
\* session (phase introduction, current_question_number 0, is_ready false,
\* the four lists empty) and leaves total_questions unchanged, so that what
\* follows a reset starts from the state a fresh session starts from.
C28_ResetRestoresInitialState ==
    [][last_call'.op = "reset_interview"
       => /\ Session' = FreshSession(total_questions)
          /\ result'.raised = "none"
          /\ UNCHANGED <<total_questions, outage>>]_vars

\* a session that had received a malformed reply has been reset
C28_Witness ==
    /\ last_call.op = "reset_interview"
    /\ malformed >= 1
    /\ Session = FreshSession(total_questions)

\* ways the upstream calls of one process_user_input call can fail other than
\* by raising: all return text without a JSON object, or all return text that
\* json.loads rejects
FailingReplies ==
    {<<[kind |-> kind,
        payload |-> EvaluationPayload(AbsentScore, AbsentScore, AbsentScore, AbsentScore)],
       [kind |-> "error", payload |-> <<>>],
       [kind |-> kind, payload |-> QuestionPayload(AbsentVal)],
       [kind |-> "error", payload |-> <<>>]>> :
        kind \in {"no_json", "bad_json"}}

C30_EvaluationStoredBeforeFeedback ==
    \A i \in 1..Len(gateway_calls) :
        gateway_calls[i].op = "conduct_interview_response" =>
            gateway_calls[i].n_evaluations = Len(user_responses)

\* C31: the k-th conversation turn references the k-th question asked: its
\* question_number is k, its question is the body of the k-th element of
\* questions_asked, and its answer is the k-th element of user_responses.
C31_TurnReferencesItsQuestion ==
    \A k \in 1..Len(conversation_history) :
        /\ conversation_history[k].question_number = k
        /\ k <= Len(questions_asked)
        /\ conversation_history[k].question = get(questions_asked[k].question, <<>>)
        /\ k <= Len(user_responses)
        /\ conversation_history[k].answer = user_responses[k]

\* the four scores of an evaluation are the number n
AllScores(e, n) ==
    /\ e.correctness_score = NumScore(n)
    /\ e.efficiency_score = NumScore(n)
    /\ e.clarity_score = NumScore(n)
    /\ e.overall_score = NumScore(n)

\* the number of characters of an answer once trimmed
TrimmedChars(a) == Len(Chars(strip(a)))

\* the basic evaluation of each stored answer gives the four scores one
\* value, 5 above 20 trimmed characters and 3 otherwise, and never scores
\* the longer of two answers lower
BasicEvaluationByLength ==
    \A a \in UserInputs :
        /\ AllScores(get_basic_evaluation(a),
                     IF TrimmedChars(a) > 20 THEN 5 ELSE 3)
        /\ \A b \in UserInputs :
              TrimmedChars(a) >= TrimmedChars(b) =>
                  get_basic_evaluation(a).overall_score.n >=
                      get_basic_evaluation(b).overall_score.n

\* C32: the fallback evaluation sets all four scores to the same value, 5
\* when the trimmed answer is longer than 20 characters and 3 otherwise, so
\* of two answers the longer (trimmed) one never gets the lower score; the
\* evaluation recorded when the upstream call fails is that evaluation.
C32_FallbackScoreByLength ==
    /\ BasicEvaluationByLength
    /\ \A i \in 1..Len(gateway_calls) :
          (outage /\ gateway_calls[i].op = "evaluate_answer"
                  /\ result.raised = "none") =>
              /\ evaluations # <<>>
              /\ evaluations[Len(evaluations)] =
                     get_basic_evaluation(gateway_calls[i].user_answer)

\* with the upstream model down an answer of exactly 20 characters has just
\* been scored 3 after an answer of 21 characters was scored 5
C32_Witness ==
    /\ outage
    /\ \E i \in 1..Len(gateway_calls) :
          /\ gateway_calls[i].op = "evaluate_answer"
          /\ gateway_calls[i].user_answer = normalized[InputTwenty]
    /\ Len(evaluations) >= 2
    /\ AllScores(evaluations[Len(evaluations)], 3)
    /\ \E j \in 1..Len(user_responses) :
          /\ user_responses[j] = normalized[InputTwentyOne]
          /\ j <= Len(evaluations)
          /\ AllScores(evaluations[j], 5)

\* the overall scores of the first k evaluations, added up
RECURSIVE OverallTotal(_, _)
OverallTotal(evals, k) ==
    IF k = 0 THEN 0 ELSE evals[k].overall_score.n + OverallTotal(evals, k - 1)

\* the report call returned the templated report and not the model's text
FallbackReportReturned ==
    /\ called(gateway_calls, "generate_final_report")
    /\ result.raised = "none"
    /\ result.text # <<"<model report text>">>

\* C33: the fallback report states proficiency level "Intermediate" when the
\* mean of overall_score over all evaluations is at least 6 and "Beginner"
\* otherwise, and states the number of evaluations as the number of
\* questions completed.
C33_ReportTierByMean ==
    FallbackReportReturned =>
        /\ Len(result.text) = 7
        /\ SubSeq(result.text, 2, 3) =
              <<"Proficiency Level: ",
                IF OverallTotal(evaluations, Len(evaluations)) >= 6 * Len(evaluations)
                THEN "Intermediate" ELSE "Beginner">>
        /\ SubSeq(result.text, 4, 6) =
              <<"You completed ", ToString(Len(evaluations)), " questions.">>

\* the templated report of two evaluations whose mean overall score is
\* exactly 6 has been returned
C33_Witness ==
    /\ FallbackReportReturned
    /\ Len(evaluations) = 2
    /\ OverallTotal(evaluations, 2) = 12
    /\ result.text[3] = "Intermediate"

\* the first n characters of a string
Cut(string, n) == SubSeq(string, 1, IF Len(string) < n THEN Len(string) ELSE n)

\* the history context of turns first..last of the session, numbered from i
RECURSIVE TurnLines(_, _, _)
TurnLines(first, last, i) ==
    IF first > last THEN ""
    ELSE "Q" \o ToString(i) \o ": "
         \o Cut(Chars(conversation_history[first].question.val), 50)
         \o "...\nA" \o ToString(i) \o ": "
         \o Cut(Chars(conversation_history[first].answer), 50) \o "...\n\n"
         \o TurnLines(first + 1, last, i + 1)

\* the history context of no turn
EmptyHistoryContext ==
    format_conversation_history(<<>>) = <<"No previous conversation.">>

\* C34: the conversation context given to the model when feedback is
\* requested, which conduct_interview_response formats from the history that
\* ends with the turn just recorded, is built from the 3 most recent turns,
\* or from all of them when there are fewer, with the question and the
\* answer of each cut to 50 characters; for an empty history it is
\* "No previous conversation.".
C34_FeedbackContextWindow ==
    /\ EmptyHistoryContext
    /\ \A i \in 1..Len(gateway_calls) :
          (/\ gateway_calls[i].op = "conduct_interview_response"
           /\ ~format_conversation_history_raises(conversation_history)) =>
              LET n == Len(conversation_history)
              IN  \A context \in {format_conversation_history(conversation_history)} :
                      Chars(context) = TurnLines(IF n > 3 THEN n - 2 ELSE 1, n, 1)

\* feedback has been requested with more than three turns in the history,
\* whose questions are longer than 50 characters and the last of whose
\* answers is longer than 50 characters
C34_Witness ==
    /\ called(gateway_calls, "conduct_interview_response")
    /\ Len(conversation_history) > 3
    /\ \A k \in 1..Len(conversation_history) :
          Len(Chars(conversation_history[k].question.val)) > 50
    /\ Len(conversation_history[Len(conversation_history)].answer) > 50

\* C35: in every reachable state the number of questions asked equals
\* current_question_number.
C35_CounterMatchesQuestions ==
    Len(questions_asked) = current_question_number

\* C36: after every call that returned, user_responses, evaluations and
\* conversation_history have one length, and that length is at most the
\* number of questions asked.
C36_AnswerListsAligned ==
    result.raised = "none" =>
        /\ Len(user_responses) = Len(evaluations)
        /\ Len(evaluations) = Len(conversation_history)
        /\ Len(conversation_history) <= Len(questions_asked)

\* the order of the difficulties
DifficultyRank(difficulty) ==
    CASE difficulty = "intermediate" -> 1
      [] difficulty = "intermediate_advanced" -> 2
      [] difficulty = "advanced" -> 3

\* C37: for the session's total_questions the difficulty _ask_next_question
\* assigns never decreases as the ordinal grows from 1 to total_questions,
\* and the last ordinal is advanced; the difficulty a question is generated
\* with is the assigned one, so it is not below that of an earlier ordinal.
C37_DifficultyNeverDecreases ==
    /\ \A m, n \in 1..total_questions :
          m <= n => DifficultyRank(question_difficulty(total_questions, m))
                      <= DifficultyRank(question_difficulty(total_questions, n))
    /\ question_difficulty(total_questions, total_questions) = "advanced"
    /\ \A i \in 1..Len(gateway_calls) :
          gateway_calls[i].op = "generate_question" =>
              /\ gateway_calls[i].difficulty_level \in Difficulties
              /\ \A m \in 1..gateway_calls[i].question_number :
                    DifficultyRank(question_difficulty(total_questions, m))
                        <= DifficultyRank(gateway_calls[i].difficulty_level)
              /\ gateway_calls[i].question_number = total_questions
                    => gateway_calls[i].difficulty_level = "advanced"

\* the last of seven questions has been generated, after questions of the
\* two lower difficulties
C37_Witness ==
    /\ total_questions = 7
    /\ \E i \in 1..Len(gateway_calls) :
          /\ gateway_calls[i].op = "generate_question"
          /\ gateway_calls[i].question_number = 7
          /\ gateway_calls[i].difficulty_level = "advanced"
    /\ question_difficulty(7, 1) = "intermediate"
    /\ question_difficulty(7, 3) = "intermediate_advanced"
    /\ Len(questions_asked) = 7

\* C38: whenever the phase is questioning or conclusion, is_ready is true
\* and current_question_number is at least 1.
C38_PastIntroductionIsReady ==
    phase \in {"questioning", "conclusion"} =>
        /\ is_ready
        /\ current_question_number >= 1

\* a call raised and left the session in the questioning phase, ready and
\* past its first question
C38_Witness ==
    /\ phase = "questioning"
    /\ last_call.op = "process_user_input"
    /\ result.raised # "none"
    /\ is_ready
    /\ current_question_number >= 1

\* C39: when every upstream call fails, every recorded overall score is 3
\* or 5, so the mean overall score is below 6, and the report the conclusion
\* call returns states proficiency level "Beginner".
C39_OutageReportsBeginner ==
    outage =>
        /\ \A i \in 1..Len(evaluations) :
              evaluations[i].overall_score \in {NumScore(3), NumScore(5)}
        /\ evaluations # <<>> =>
              OverallTotal(evaluations, Len(evaluations)) < 6 * Len(evaluations)
        /\ called(gateway_calls, "generate_final_report") =>
              /\ result.raised = "none"
              /\ Len(result.text) = 7
              /\ result.text[3] = "Beginner"

\* with the upstream model down a session whose answers all got the higher
\* score has been given its report
C39_Witness ==
    /\ outage
    /\ called(gateway_calls, "generate_final_report")
    /\ Len(evaluations) >= 3
    /\ \A i \in 1..Len(evaluations) : evaluations[i].overall_score = NumScore(5)
    /\ result.text[3] = "Beginner"

====
